---- MODULE Spec2Model ----
(***************************************************************************)
(* A model of lnaddr.rs: the BOLT #11 tagged-field codec (Tag::to_vec_u5   *)
(* and Tag::parse), the ExtraHop record codec, the 35-bit Timestamp codec  *)
(* and the amount shorthand (encode_amount / decode_amount).               *)
(*                                                                         *)
(* The library is a set of pure functions.  Each is an operator below,     *)
(* computed the way the code computes it; the state machine is a caller    *)
(* that picks an operation and an input, and records the call, its         *)
(* argument and what it returned.                                          *)
(*                                                                         *)
(* Numbers.  TLC's integers are 32 bits wide, the program's are u8, u16,   *)
(* u32, u64 and f64.  Bytes, words and lengths are TLC integers; every     *)
(* wider value is a "Big": a little-endian sequence of limbs in base 2^15  *)
(* without high zero limbs (zero is << >>).                                *)
(***************************************************************************)
EXTENDS Integers, Sequences, FiniteSets, TLC

VARIABLES
    overflow_checks,  \* the build: TRUE = arithmetic overflow panics (debug), FALSE = it wraps (release)
    pc,               \* the call that completed last
    arg,              \* its argument
    ret,              \* what it returned: a Result as Ok(v) or Err(e), any other value as
                      \* itself, and Panic(m) where the call panicked
    prev              \* the call before it, when this call consumed its result

vars == <<overflow_checks, pc, arg, ret, prev>>

(***************************************************************************)
(* Result<T, Error>, and the abort of a panic                              *)
(***************************************************************************)
Ok(v) == [kind |-> "Ok", val |-> v]
Err(e) == [kind |-> "Err", err |-> e]
Panic(m) == [kind |-> "Panic", msg |-> m]
IsOk(r) == r.kind = "Ok"
IsErr(r) == r.kind = "Err"
IsPanic(r) == r.kind = "Panic"

\* Result::map / Result::and_then on the three outcomes
MapResult(r, F(_)) == IF IsOk(r) THEN Ok(F(r.val)) ELSE r
AndThen(r, F(_)) == IF IsOk(r) THEN F(r.val) ELSE r

Min(a, b) == IF a < b THEN a ELSE b
Max(a, b) == IF a < b THEN b ELSE a

\* The slice s[a..b] of Rust (0-based, b exclusive) and when taking it does not panic
SliceOk(s, a, b) == a <= b /\ b <= Len(s)
Slice(s, a, b) == SubSeq(s, a + 1, b)
Repeat(x, n) == [i \in 1..n |-> x]

(***************************************************************************)
(* Big: unsigned integers wider than 31 bits                               *)
(***************************************************************************)
\* The operations are written over all the limbs at once where that is possible
\* (a carry is looked ahead, not rippled), and take their arguments by value
\* (TLC computes an argument where it is first used; Eager(x) uses it at once),
\* so that the evaluation stays shallow.
Base == 2^15

Eager(x) == x = x

\* a without its high zero limbs
BigNorm(a) ==
    CASE Eager(a) ->
        SubSeq(a, 1, CHOOSE k \in 0..Len(a) :
                        /\ k > 0 => a[k] # 0
                        /\ \A j \in (k + 1)..Len(a) : a[j] = 0)

\* a TLC integer as a Big
BigOfInt(n) == BigNorm(<<n % Base, (n \div Base) % Base, n \div (Base * Base)>>)

BigZero == <<>>
BigIsZero(a) == a = <<>>
BigLimb(a, i) == IF i <= Len(a) THEN a[i] ELSE 0

\* a as a TLC integer; only for a < 2^30
BigToInt(a) == BigLimb(a, 1) + Base * BigLimb(a, 2)
BigFitsInt(a) == Len(a) <= 2

BigLt(a, b) ==
    CASE Eager(a) /\ Eager(b) ->
        \/ Len(a) < Len(b)
        \/ /\ Len(a) = Len(b)
           /\ \E i \in 1..Len(a) :
                /\ a[i] < b[i]
                /\ \A j \in (i + 1)..Len(a) : a[j] = b[j]

BigLeq(a, b) == a = b \/ BigLt(a, b)

\* -1, 0, 1 as a < b, a = b, a > b
BigCmp(a, b) == IF a = b THEN 0 ELSE IF BigLt(a, b) THEN -1 ELSE 1

\* a + b: the carry into limb i is 1 when a limb below overflows and every limb
\* between is full
BigAdd(a, b) ==
    CASE Eager(a) /\ Eager(b) ->
        LET s(i) == BigLimb(a, i) + BigLimb(b, i)
            carry(i) == IF \E j \in 1..(i - 1) :
                              /\ s(j) >= Base
                              /\ \A k \in (j + 1)..(i - 1) : s(k) = Base - 1
                        THEN 1 ELSE 0
        IN  BigNorm([i \in 1..(Max(Len(a), Len(b)) + 1) |-> (s(i) + carry(i)) % Base])

\* a - b, for a >= b: the borrow from limb i likewise
BigSub(a, b) ==
    CASE Eager(a) /\ Eager(b) ->
        LET d(i) == BigLimb(a, i) - BigLimb(b, i)
            borrow(i) == IF \E j \in 1..(i - 1) :
                               /\ d(j) < 0
                               /\ \A k \in (j + 1)..(i - 1) : d(k) = 0
                         THEN 1 ELSE 0
        IN  BigNorm([i \in 1..Len(a) |-> (d(i) + Base - borrow(i)) % Base])

\* a * Base^k
BigShiftLimbs(a, k) == IF a = <<>> THEN <<>> ELSE Repeat(0, k) \o a

\* a * m, for 0 <= m < 2^15: the low halves of the limb products plus their high halves
BigMulSmall(a, m) ==
    CASE Eager(a) /\ Eager(m) ->
        BigAdd(BigNorm([i \in 1..Len(a) |-> (a[i] * m) % Base]),
               BigNorm([i \in 1..(Len(a) + 1) |-> IF i = 1 THEN 0 ELSE (a[i - 1] * m) \div Base]))

\* a * b: the sum over b's limbs from..to, by halves
RECURSIVE BigMulRange(_, _, _, _)
BigMulRange(a, b, from, to) ==
    CASE Eager(a) /\ Eager(b) /\ Eager(from) /\ Eager(to) ->
        IF from > to THEN BigZero
        ELSE IF from = to THEN BigShiftLimbs(BigMulSmall(a, b[from]), from - 1)
        ELSE LET mid == (from + to) \div 2
             IN  BigAdd(BigMulRange(a, b, from, mid), BigMulRange(a, b, mid + 1, to))

BigMul(a, b) == BigMulRange(a, b, 1, Len(b))

\* <<a \div d, a % d>>, for 0 < d < 2^15: long division from the high limb
RECURSIVE BigDivSmallFrom(_, _, _, _)
BigDivSmallFrom(a, d, i, carry) ==
    CASE Eager(a) /\ Eager(d) /\ Eager(i) /\ Eager(carry) ->
        IF i = 0 THEN <<<<>>, carry>>
        ELSE LET cur == carry * Base + a[i]
                 rest == BigDivSmallFrom(a, d, i - 1, cur % d)
             IN  <<rest[1] \o <<cur \div d>>, rest[2]>>

BigDivSmall(a, d) == BigNorm(BigDivSmallFrom(a, d, Len(a), 0)[1])
BigModSmall(a, d) == BigDivSmallFrom(a, d, Len(a), 0)[2]

\* 2^n
BigPow2(n) == Repeat(0, n \div 15) \o <<2^(n % 15)>>

\* the number of bits of a (0 for zero)
BitLenInt(n) == CHOOSE k \in 0..15 : (k > 0 => 2^(k - 1) <= n) /\ n < 2^k

BigBitLen(a) == IF a = <<>> THEN 0 ELSE 15 * (Len(a) - 1) + BitLenInt(a[Len(a)])

\* a * 2^n and a \div 2^n
BigShl(a, n) ==
    CASE Eager(a) /\ Eager(n) ->
        BigShiftLimbs(BigMulSmall(a, 2^(n % 15)), n \div 15)

BigShr(a, n) ==
    CASE Eager(a) /\ Eager(n) ->
        IF n \div 15 >= Len(a) THEN <<>>
        ELSE BigDivSmall(SubSeq(a, (n \div 15) + 1, Len(a)), 2^(n % 15))

\* a % 2^n
BigModPow2(a, n) ==
    CASE Eager(a) /\ Eager(n) ->
        BigSub(a, BigShl(BigShr(a, n), n))

\* <<n \div d, n % d>> for d > 0: long division in base 2^15.  With d's top limb at
\* least 2^14, the quotient limb is at most 2 below the quotient of the top limbs.
RECURSIVE BigDivLimbs(_, _, _, _, _)
BigDivLimbs(n, d, i, rem, q) ==
    CASE Eager(n) /\ Eager(d) /\ Eager(i) /\ Eager(rem) /\ Eager(q) ->
        IF i = 0 THEN <<BigNorm(q), rem>>
        ELSE LET cur == BigAdd(BigShiftLimbs(rem, 1), BigOfInt(n[i]))
                 top == BigLimb(cur, Len(d) + 1) * Base + BigLimb(cur, Len(d))
                 guess == Min(Base - 1, top \div d[Len(d)])
                 c == CHOOSE c \in Max(0, guess - 2)..guess :
                        /\ BigLeq(BigMulSmall(d, c), cur)
                        /\ BigLt(cur, BigMulSmall(d, c + 1))
             IN  BigDivLimbs(n, d, i - 1, BigSub(cur, BigMulSmall(d, c)), <<c>> \o q)

BigDivMod(n, d) ==
    CASE Eager(n) /\ Eager(d) ->
        LET shift == 15 - BitLenInt(d[Len(d)])
            ns == BigShl(n, shift)
            \* the remainder after the limbs of n that cannot yet hold d
            skip == Min(Len(d) - 1, Len(ns))
            qr == BigDivLimbs(ns, BigShl(d, shift), Len(ns) - skip,
                              BigNorm(SubSeq(ns, Len(ns) - skip + 1, Len(ns))), <<>>)
        IN  <<qr[1], BigShr(qr[2], shift)>>

\* the integer whose big-endian digits in base 2^w are s, by halves
RECURSIVE BigOfDigitsPow2(_, _)
BigOfDigitsPow2(s, w) ==
    CASE Eager(s) /\ Eager(w) ->
        IF Len(s) = 0 THEN BigZero
        ELSE IF Len(s) = 1 THEN BigOfInt(s[1])
        ELSE LET h == Len(s) \div 2
             IN  BigAdd(BigShl(BigOfDigitsPow2(SubSeq(s, 1, h), w), w * (Len(s) - h)),
                        BigOfDigitsPow2(SubSeq(s, h + 1, Len(s)), w))

\* the n low digits of a in base 2^w, big-endian
BigToDigitsPow2(a, w, n) ==
    CASE Eager(a) /\ Eager(w) /\ Eager(n) ->
        [i \in 1..n |-> BigModSmall(BigShr(a, w * (n - i)), 2^w)]

BigOfBytes(bs) == BigOfDigitsPow2(bs, 8)
BigToBytes(a, n) == BigToDigitsPow2(a, 8, n)

U64Max == BigSub(BigPow2(64), <<1>>)


(***************************************************************************)
(* u8 arithmetic of the build: an overflowing result panics when the       *)
(* build checks overflow, and wraps to 8 bits when it does not             *)
(***************************************************************************)
CheckedU8(v, checks) ==
    IF v <= 255 THEN Ok(v)
    ELSE IF checks THEN Panic("arithmetic overflow")
    ELSE Ok(v % 256)

(***************************************************************************)
(* BECH32_ALPHABET: the characters of the type codes, with their values    *)
(***************************************************************************)
BECH32_ALPHABET ==
    [c \in {"q", "p", "z", "r", "y", "9", "x", "8", "g", "f", "2", "t", "v", "d", "w", "0",
            "s", "3", "j", "n", "5", "4", "k", "h", "c", "e", "6", "m", "u", "a", "7", "l"} |->
        CASE c = "q" -> 0  [] c = "p" -> 1  [] c = "z" -> 2  [] c = "r" -> 3
          [] c = "y" -> 4  [] c = "9" -> 5  [] c = "x" -> 6  [] c = "8" -> 7
          [] c = "g" -> 8  [] c = "f" -> 9  [] c = "2" -> 10 [] c = "t" -> 11
          [] c = "v" -> 12 [] c = "d" -> 13 [] c = "w" -> 14 [] c = "0" -> 15
          [] c = "s" -> 16 [] c = "3" -> 17 [] c = "j" -> 18 [] c = "n" -> 19
          [] c = "5" -> 20 [] c = "4" -> 21 [] c = "k" -> 22 [] c = "h" -> 23
          [] c = "c" -> 24 [] c = "e" -> 25 [] c = "6" -> 26 [] c = "m" -> 27
          [] c = "u" -> 28 [] c = "a" -> 29 [] c = "7" -> 30 [] c = "l" -> 31]

KnownCodes == {BECH32_ALPHABET[c] : c \in {"p", "d", "h", "f", "r", "x", "c"}}

(***************************************************************************)
(* VecU5: the conversions between bytes, u64 and 5-bit words               *)
(***************************************************************************)
\* bit j (from 0, most significant first) of a stream of w-bit units; 0 past its end
StreamBit(s, w, j) ==
    IF j >= w * Len(s) THEN 0
    ELSE (s[(j \div w) + 1] \div 2^(w - 1 - (j % w))) % 2

\* bytes -> words: the bits left-aligned, the last word padded with zero bits
VecU5_from_u8_vec(bytes) ==
    Ok([i \in 1..((8 * Len(bytes) + 4) \div 5) |->
          16 * StreamBit(bytes, 8, 5 * (i - 1))
        +  8 * StreamBit(bytes, 8, 5 * (i - 1) + 1)
        +  4 * StreamBit(bytes, 8, 5 * (i - 1) + 2)
        +  2 * StreamBit(bytes, 8, 5 * (i - 1) + 3)
        +      StreamBit(bytes, 8, 5 * (i - 1) + 4)])

\* words -> bytes: the inverse; an error when the input is no packing of bytes: a
\* word over 31, a whole word of padding, or a padding bit that is set
VecU5_to_u8_vec(words) ==
    LET n == (5 * Len(words)) \div 8
        padding == (5 * Len(words)) % 8
    IN  IF \/ \E i \in 1..Len(words) : words[i] > 31
           \/ padding >= 5
           \/ \E j \in (8 * n)..(5 * Len(words) - 1) : StreamBit(words, 5, j) = 1
        THEN Err("Bech32Err")
        ELSE Ok([i \in 1..n |->
                  128 * StreamBit(words, 5, 8 * (i - 1))
                +  64 * StreamBit(words, 5, 8 * (i - 1) + 1)
                +  32 * StreamBit(words, 5, 8 * (i - 1) + 2)
                +  16 * StreamBit(words, 5, 8 * (i - 1) + 3)
                +   8 * StreamBit(words, 5, 8 * (i - 1) + 4)
                +   4 * StreamBit(words, 5, 8 * (i - 1) + 5)
                +   2 * StreamBit(words, 5, 8 * (i - 1) + 6)
                +       StreamBit(words, 5, 8 * (i - 1) + 7)])

\* u64 -> words: big-endian base 32 with no leading zero word; zero is the empty vector
VecU5_from_u64(v) == BigToDigitsPow2(v, 5, (BigBitLen(v) + 4) \div 5)

\* the fold a * 32 + b over the words s, from a
FoldBase32(a, s) == BigAdd(BigShl(a, 5 * Len(s)), BigOfDigitsPow2(s, 5))

\* words -> u64: the fold a * 32 + b over the first length words, in u64 arithmetic.
\* The accumulator never decreases, so the fold overflows exactly when its
\* unbounded value passes 2^64 - 1: a word set before the last 13, or the last 13
\* words holding more than 64 bits.
VecU5_to_u64(length, words, checks) ==
    LET s == SubSeq(words, 1, Min(length, Len(words)))
        low == SubSeq(s, Max(1, Len(s) - 12), Len(s))
        high == SubSeq(s, 1, Len(s) - Len(low))
        value == FoldBase32(BigZero, low)
        overflows == (\E i \in 1..Len(high) : high[i] # 0) \/ BigLt(U64Max, value)
    IN  IF overflows /\ checks THEN Panic("arithmetic overflow")
        ELSE Ok(BigModPow2(value, 64))

(***************************************************************************)
(* String::from_utf8: whether the bytes are well-formed UTF-8              *)
(***************************************************************************)
Utf8Width(b) ==
    IF b < 128 THEN 1
    ELSE IF 194 <= b /\ b <= 223 THEN 2
    ELSE IF 224 <= b /\ b <= 239 THEN 3
    ELSE IF 240 <= b /\ b <= 244 THEN 4
    ELSE 0

Utf8Cont(b) == 128 <= b /\ b <= 191

Utf8Second(lead, b) ==
    CASE lead = 224 -> 160 <= b /\ b <= 191
      [] lead = 237 -> 128 <= b /\ b <= 159
      [] lead = 240 -> 144 <= b /\ b <= 191
      [] lead = 244 -> 128 <= b /\ b <= 143
      [] OTHER -> Utf8Cont(b)

IsUtf8(bs) ==
    \A i \in 1..Len(bs) :
        IF Utf8Cont(bs[i])
        THEN \E k \in 1..3 :
                /\ i - k >= 1
                /\ Utf8Width(bs[i - k]) > k
                /\ \A j \in 1..(k - 1) : Utf8Cont(bs[i - j])
        ELSE LET w == Utf8Width(bs[i])
             IN  /\ w >= 1
                 /\ i + w - 1 <= Len(bs)
                 /\ \A k \in 1..(w - 1) : Utf8Cont(bs[i + k])
                 /\ w >= 2 => Utf8Second(bs[i], bs[i + 1])

String_from_utf8(v) == IF IsUtf8(v) THEN Ok(v) ELSE Err("FromUTF8Err")

(***************************************************************************)
(* ExtraHop: the 51-byte routing record                                    *)
(***************************************************************************)
CHUNK_LENGTH == 51

ExtraHop(pub_key, short_channel_id, fee_base_msat, fee_proportional_millionths, cltv_expiry_delta) ==
    [pub_key |-> pub_key,
     short_channel_id |-> short_channel_id,
     fee_base_msat |-> fee_base_msat,
     fee_proportional_millionths |-> fee_proportional_millionths,
     cltv_expiry_delta |-> cltv_expiry_delta]

\* the key as given, then the four integers big-endian in 8, 4, 4 and 2 bytes
ExtraHop_pack(hop) ==
    Ok(hop.pub_key
       \o BigToBytes(hop.short_channel_id, 8)
       \o BigToBytes(hop.fee_base_msat, 4)
       \o BigToBytes(hop.fee_proportional_millionths, 4)
       \o BigToBytes(hop.cltv_expiry_delta, 2))

\* the fields at their fixed offsets; data holds CHUNK_LENGTH bytes
ExtraHop_parse(data) ==
    ExtraHop(Slice(data, 0, 33),
             BigOfBytes(Slice(data, 33, 41)),
             BigOfBytes(Slice(data, 41, 45)),
             BigOfBytes(Slice(data, 45, 49)),
             BigOfBytes(Slice(data, 49, CHUNK_LENGTH)))

\* chunks cut one byte late
Chunks_Misaligned(data, size) ==
    [i \in 1..((Len(data) + size - 2) \div size) |->
        SubSeq(data, size * (i - 1) + 2, Min(size * i + 1, Len(data)))]

\* slice::chunks: consecutive chunks of size bytes, the last one possibly shorter
Chunks(data, size) ==
    [i \in 1..((Len(data) + size - 1) \div size) |->
        SubSeq(data, size * (i - 1) + 1, Min(size * i, Len(data)))]

IsFullChunk(c) == Len(c) = CHUNK_LENGTH

ExtraHop_parse_all(data) ==
    LET full == SelectSeq(Chunks(data, CHUNK_LENGTH), IsFullChunk)
    IN  [i \in 1..Len(full) |-> ExtraHop_parse(full[i])]

(***************************************************************************)
(* Tag: the variants, as records                                           *)
(***************************************************************************)
PaymentHash(hash) == [type |-> "PaymentHash", hash |-> hash]
Description(description) == [type |-> "Description", description |-> description]
DescriptionHash(hash) == [type |-> "DescriptionHash", hash |-> hash]
FallbackAddress(version, hash) ==
    [type |-> "FallbackAddress", version |-> version, hash |-> hash]
Expiry(seconds) == [type |-> "Expiry", seconds |-> seconds]
MinFinalCltvExpiry(blocks) == [type |-> "MinFinalCltvExpiry", blocks |-> blocks]
RoutingInfo(path) == [type |-> "RoutingInfo", path |-> path]
UnknownTag(tag, bytes) == [type |-> "UnknownTag", tag |-> tag, bytes |-> bytes]

(***************************************************************************)
(* Tag::to_vec_u5 and its helpers                                          *)
(***************************************************************************)
\* the length field of the variants that pack bytes: len / 32 and len % 32 cast to u8
Tag_to_vec_u5_convert(value, data) ==
    IF IsOk(data)
    THEN LET bytes == data.val
             len == Len(bytes)
         IN  Ok(<<value, (len \div 32) % 256, len % 32>> \o bytes)
    ELSE data

\* the length field of the other variants: exactly two words, or InvalidLength
Tag_write_size(size) ==
    LET output == VecU5_from_u64(BigOfInt(size))
    IN  CASE Len(output) = 0 -> Ok(<<0, 0>>)
          [] Len(output) = 1 -> Ok(<<0>> \o output)
          [] Len(output) = 2 -> Ok(output)
          [] OTHER -> Err("InvalidLength")

\* fold_results over the packed hops: their bytes in order, or the first error
RECURSIVE PackPath(_, _)
PackPath(path, acc) ==
    IF path = <<>> THEN Ok(acc)
    ELSE LET hop == ExtraHop_pack(Head(path))
         IN  IF IsOk(hop) THEN PackPath(Tail(path), acc \o hop.val) ELSE hop

Tag_to_vec_u5(t) ==
    CASE t.type = "PaymentHash" ->
            Tag_to_vec_u5_convert(BECH32_ALPHABET["p"], VecU5_from_u8_vec(t.hash))
      [] t.type = "Description" ->
            Tag_to_vec_u5_convert(BECH32_ALPHABET["d"], VecU5_from_u8_vec(t.description))
      [] t.type = "DescriptionHash" ->
            Tag_to_vec_u5_convert(BECH32_ALPHABET["h"], VecU5_from_u8_vec(t.hash))
      [] t.type = "FallbackAddress" ->
            Tag_to_vec_u5_convert(BECH32_ALPHABET["f"],
                MapResult(VecU5_from_u8_vec(t.hash), LAMBDA b : <<t.version>> \o b))
      [] t.type = "Expiry" ->
            LET bytes == VecU5_from_u64(t.seconds)
            IN  MapResult(Tag_write_size(Len(bytes)),
                          LAMBDA size : <<BECH32_ALPHABET["x"]>> \o size \o bytes)
      [] t.type = "MinFinalCltvExpiry" ->
            LET bytes == VecU5_from_u64(t.blocks)
            IN  MapResult(Tag_write_size(Len(bytes)),
                          LAMBDA size : <<BECH32_ALPHABET["c"]>> \o size \o bytes)
      [] t.type = "RoutingInfo" ->
            Tag_to_vec_u5_convert(BECH32_ALPHABET["r"],
                AndThen(PackPath(t.path, <<>>), VecU5_from_u8_vec))
      [] t.type = "UnknownTag" ->
            MapResult(Tag_write_size(Len(t.bytes)),
                      LAMBDA size : <<t.tag>> \o size \o t.bytes)

(***************************************************************************)
(* Tag::parse                                                              *)
(***************************************************************************)
\* input[1] * 32 + input[2] in u8, then widened: the declared payload length
Tag_parse_len(input, checks) ==
    AndThen(CheckedU8(input[2] * 32, checks),
            LAMBDA m : CheckedU8(m + input[3], checks))

\* the payload slice input[from..len + 3], handed to F; a panic when it is out of range
WithPayload(input, from, len, F(_)) ==
    IF SliceOk(input, from, len + 3)
    THEN F(Slice(input, from, len + 3))
    ELSE Panic("slice index out of range")

Tag_parse_tag(input, tag, len, checks) ==
    CASE tag = BECH32_ALPHABET["p"] ->
            IF SliceOk(input, 3, 55)
            THEN MapResult(VecU5_to_u8_vec(Slice(input, 3, 55)), PaymentHash)
            ELSE Panic("slice index out of range")
      [] tag = BECH32_ALPHABET["d"] ->
            WithPayload(input, 3, len,
                LAMBDA w : MapResult(AndThen(VecU5_to_u8_vec(w), String_from_utf8),
                                     Description))
      [] tag = BECH32_ALPHABET["h"] ->
            WithPayload(input, 3, len,
                LAMBDA w : MapResult(VecU5_to_u8_vec(w), DescriptionHash))
      [] tag = BECH32_ALPHABET["f"] ->
            IF Len(input) < 4 THEN Panic("index out of bounds")
            ELSE LET version == input[4]
                 IN  WithPayload(input, 4, len,
                        LAMBDA w :
                            IF version <= 18
                            THEN MapResult(VecU5_to_u8_vec(w),
                                           LAMBDA hash : FallbackAddress(version, hash))
                            ELSE WithPayload(input, 3, len,
                                    LAMBDA b : Ok(UnknownTag(tag, b))))
      [] tag = BECH32_ALPHABET["r"] ->
            WithPayload(input, 3, len,
                LAMBDA w : MapResult(MapResult(VecU5_to_u8_vec(w), ExtraHop_parse_all),
                                     RoutingInfo))
      [] tag = BECH32_ALPHABET["x"] ->
            WithPayload(input, 3, len,
                LAMBDA w : MapResult(VecU5_to_u64(len, w, checks), Expiry))
      [] tag = BECH32_ALPHABET["c"] ->
            WithPayload(input, 3, len,
                LAMBDA w : MapResult(VecU5_to_u64(len, w, checks), MinFinalCltvExpiry))
      [] OTHER ->
            WithPayload(input, 3, len, LAMBDA b : Ok(UnknownTag(tag, b)))

Tag_parse(input, checks) ==
    IF Len(input) < 2 THEN Panic("index out of bounds")
    ELSE LET mul == CheckedU8(input[2] * 32, checks)
         IN  IF IsPanic(mul) THEN mul
             ELSE IF Len(input) < 3 THEN Panic("index out of bounds")
             ELSE AndThen(Tag_parse_len(input, checks),
                          LAMBDA len : Tag_parse_tag(input, input[1], len, checks))

(***************************************************************************)
(* Timestamp: 35 bits as 7 words, big-endian                               *)
(***************************************************************************)
\* data.iter().take(7).fold(0, |a, b| a * 32 + b)
Timestamp_decode(data) == FoldBase32(BigZero, SubSeq(data, 1, Min(7, Len(data))))

\* a variant that leaves the words least significant first
Reverse_Skipped(s) == s

Reverse(s) == [i \in 1..Len(s) |-> s[Len(s) + 1 - i]]

\* while acc.len() < 7 { acc.push(time_acc % 32); time_acc /= 32 }
RECURSIVE Timestamp_encode_loop(_, _)
Timestamp_encode_loop(acc, time_acc) ==
    IF Len(acc) < 7
    THEN Timestamp_encode_loop(Append(acc, BigModSmall(time_acc, 32)),
                               BigDivSmall(time_acc, 32))
    ELSE acc

Timestamp_encode(timestamp) == Reverse(Timestamp_encode_loop(<<>>, timestamp))

(***************************************************************************)
(* f64: IEEE 754 binary64, round to nearest, ties to even.                 *)
(* A finite value is m * 2^e with m < 2^53; it is normal (2^52 <= m,       *)
(* e >= -1074), subnormal (m < 2^52, e = -1074) or zero (m = 0, e = 0), so *)
(* equal values are equal records.  NaN arises in none of the operations   *)
(* below on the values they are given here.                                *)
(***************************************************************************)
F64(neg, m, e) == [inf |-> FALSE, neg |-> neg, m |-> m, e |-> e]
F64Inf(neg) == [inf |-> TRUE, neg |-> neg, m |-> BigZero, e |-> 0]
F64Zero(neg) == F64(neg, BigZero, 0)
F64IsZero(x) == ~x.inf /\ BigIsZero(x.m)

BigIsOdd(a) == BigLimb(a, 1) % 2 = 1

\* n and d scaled by 2^e: n / d becomes (n / d) * 2^(-e)
F64Num(n, e) == IF e < 0 THEN BigShl(n, 0 - e) ELSE n
F64Den(d, e) == IF e > 0 THEN BigShl(d, e) ELSE d

\* the exponent e of the result: 2^52 <= n / (d * 2^e) < 2^53, and not below the
\* least exponent, that of the subnormals
F64Exponent(n, d, ex) ==
    LET e0 == BigBitLen(n) - BigBitLen(d) - 53
        \* 2^52 < n / (d * 2^e0) < 2^54: one more when it is 2^53 or more
        e1 == IF BigLeq(BigShl(F64Den(d, e0), 53), F64Num(n, e0)) THEN e0 + 1 ELSE e0
    IN  Max(e1, (0 - 1074) - ex)

\* the quotient qr[1] of a division by d with remainder qr[2], to the nearest
\* integer, a tie to the even one
F64Nearest(qr, d) ==
    CASE Eager(qr) /\ Eager(d) ->
        LET half == BigCmp(BigShl(qr[2], 1), d)
        IN  IF half > 0 \/ (half = 0 /\ BigIsOdd(qr[1])) THEN BigAdd(qr[1], <<1>>) ELSE qr[1]

\* m * 2^e for m <= 2^53: infinite beyond the largest exponent
F64Pack(neg, m, e) ==
    CASE Eager(m) /\ Eager(e) ->
        IF BigIsZero(m) THEN F64Zero(neg)
        ELSE IF m = BigPow2(53)
        THEN (IF e + 1 > 971 THEN F64Inf(neg) ELSE F64(neg, BigPow2(52), e + 1))
        ELSE (IF e > 971 THEN F64Inf(neg) ELSE F64(neg, m, e))

F64RoundAt(neg, n, d, ex, e) ==
    CASE Eager(e) ->
        F64Pack(neg, F64Nearest(BigDivMod(F64Num(n, e), F64Den(d, e)), F64Den(d, e)), e + ex)

\* the f64 nearest to (n / d) * 2^ex, for n >= 0 and d > 0
F64Round(neg, n, d, ex) ==
    CASE Eager(neg) /\ Eager(n) /\ Eager(d) /\ Eager(ex) ->
        IF BigIsZero(n) THEN F64Zero(neg)
        ELSE F64RoundAt(neg, n, d, ex, F64Exponent(n, d, ex))

\* a * b and a / b, for b finite and not zero
F64Mul(a, b) ==
    IF a.inf THEN F64Inf(a.neg # b.neg)
    ELSE F64Round(a.neg # b.neg, BigMul(a.m, b.m), <<1>>, a.e + b.e)

F64Div(a, b) ==
    IF a.inf THEN F64Inf(a.neg # b.neg)
    ELSE F64Round(a.neg # b.neg, a.m, b.m, a.e - b.e)

\* the f64 of an integer that f64 holds exactly
F64OfInt(n) == F64Round(FALSE, BigOfInt(n), <<1>>, 0)

\* `x as u64`: toward zero; below zero gives 0, above the range gives u64::MAX
F64AsU64(x) ==
    IF x.neg THEN BigZero
    ELSE IF x.inf THEN U64Max
    ELSE LET v == IF x.e >= 0
                  THEN (IF BigBitLen(x.m) + x.e > 64 THEN U64Max ELSE BigShl(x.m, x.e))
                  ELSE BigShr(x.m, 0 - x.e)
         IN  v

(***************************************************************************)
(* Strings are sequences of one-character strings.                         *)
(***************************************************************************)
DecimalDigits == <<"0", "1", "2", "3", "4", "5", "6", "7", "8", "9">>
IsDigit(c) == \E d \in 1..10 : DecimalDigits[d] = c
DigitValue(c) == (CHOOSE d \in 1..10 : DecimalDigits[d] = c) - 1

\* 10^k, by squaring
RECURSIVE BigPow10(_)
BigPow10(k) ==
    CASE Eager(k) ->
        IF k = 0 THEN <<1>>
        ELSE LET h == BigPow10(k \div 2)
             IN  IF k % 2 = 0 THEN BigMul(h, h) ELSE BigMulSmall(BigMul(h, h), 10)

\* u64::to_string: the decimal digits, no leading zero, "0" for zero.  The digits
\* are taken from the five base-10000 chunks of n (n < 2^64 < 10^20).
U64_to_string(n) ==
    CASE Eager(n) ->
        LET q1 == BigDivSmall(n, 10000)
            q2 == BigDivSmall(q1, 10000)
            q3 == BigDivSmall(q2, 10000)
            q4 == BigDivSmall(q3, 10000)
            chunk == <<BigModSmall(n, 10000), BigModSmall(q1, 10000), BigModSmall(q2, 10000),
                       BigModSmall(q3, 10000), BigToInt(q4)>>
            \* the digit of weight 10^i
            digit == [i \in 0..19 |-> (chunk[(i \div 4) + 1] \div 10^(i % 4)) % 10]
            k == CHOOSE k \in 1..20 :
                    /\ \A j \in k..19 : digit[j] = 0
                    /\ k > 1 => digit[k - 1] # 0
        IN  [i \in 1..k |-> DecimalDigits[digit[k - i] + 1]]

\* the integer a run of decimal digits writes, by halves
RECURSIVE BigOfDigits(_)
BigOfDigits(s) ==
    CASE Eager(s) ->
        IF Len(s) = 0 THEN BigZero
        ELSE IF Len(s) = 1 THEN BigOfInt(DigitValue(s[1]))
        ELSE LET h == Len(s) \div 2
             IN  BigAdd(BigMul(BigOfDigits(SubSeq(s, 1, h)), BigPow10(Len(s) - h)),
                        BigOfDigits(SubSeq(s, h + 1, Len(s))))

\* how many digits s holds from position from on
DigitRun(s, from) ==
    CHOOSE k \in 0..(Len(s) + 1 - from) :
        /\ \A i \in from..(from + k - 1) : IsDigit(s[i])
        /\ from + k <= Len(s) => ~IsDigit(s[from + k])

(***************************************************************************)
(* str::parse::<f64>: [+-] digits [. digits] [(e|E) [+-] digits], with a   *)
(* digit before or after the point, and nothing else before or after.      *)
(* ("inf", "infinity" and "nan" parse too; they are not modelled, and the  *)
(* strings given to the parser here cannot spell them.)                    *)
(***************************************************************************)
ParseFloatError == Err("ParseFloatErr")

\* the value of n * 10^exp10 for n of len digits; beyond f64's range without
\* computing the power
F64OfScaled(neg, n, len, exp10) ==
    CASE Eager(n) /\ Eager(exp10) ->
        IF BigIsZero(n) THEN F64Zero(neg)
        ELSE IF exp10 > 310 THEN F64Inf(neg)
        ELSE IF exp10 + len < 0 - 330 THEN F64Zero(neg)
        ELSE F64Round(neg, IF exp10 >= 0 THEN BigMul(n, BigPow10(exp10)) ELSE n,
                      IF exp10 >= 0 THEN <<1>> ELSE BigPow10(0 - exp10), 0)

F64OfDecimal(neg, digits, exp10) == F64OfScaled(neg, BigOfDigits(digits), Len(digits), exp10)

\* the exponent the digits spell; more than four digits' worth is beyond every f64
ExponentOf(b) == IF BigFitsInt(b) /\ BigToInt(b) < 10000 THEN BigToInt(b) ELSE 10000

\* s less its sign
Unsigned(str) == IF Len(str) > 0 /\ str[1] \in {"+", "-"} THEN Tail(str) ELSE str

\* after the mantissa, which ends at mend, and the exponent's ne digits from efrom
parse_f64_value(neg, s, mantissa, nf, hasexp, eneg, efrom, ne, mend) ==
    CASE Eager(ne) ->
        IF \/ Len(mantissa) = 0
           \/ hasexp /\ ne = 0
           \/ (IF hasexp THEN efrom + ne - 1 ELSE mend) # Len(s)
        THEN ParseFloatError
        ELSE Ok(F64OfDecimal(neg, mantissa,
                (IF eneg THEN 0 - 1 ELSE 1)
                    * ExponentOf(BigOfDigits(SubSeq(s, efrom, efrom + ne - 1))) - nf))

\* after ni digits, and nf more behind a point if there is one: the exponent
parse_f64_exponent(neg, s, ni, point, nf) ==
    CASE Eager(ni) /\ Eager(point) /\ Eager(nf) ->
        LET mend == ni + (IF point THEN 1 + nf ELSE 0)
            hasexp == mend + 1 <= Len(s) /\ s[mend + 1] \in {"e", "E"}
            esigned == hasexp /\ mend + 2 <= Len(s) /\ s[mend + 2] \in {"+", "-"}
            efrom == mend + (IF esigned THEN 3 ELSE 2)
        IN  parse_f64_value(neg, s,
                SubSeq(s, 1, ni) \o (IF point THEN SubSeq(s, ni + 2, ni + 1 + nf) ELSE <<>>),
                nf, hasexp, esigned /\ s[mend + 2] = "-", efrom,
                IF hasexp THEN DigitRun(s, efrom) ELSE 0, mend)

\* after ni digits: the point and the digits behind it
parse_f64_point(neg, s, ni) ==
    CASE Eager(s) /\ Eager(ni) ->
        parse_f64_exponent(neg, s, ni, ni + 1 <= Len(s) /\ s[ni + 1] = ".",
            IF ni + 1 <= Len(s) /\ s[ni + 1] = "." THEN DigitRun(s, ni + 2) ELSE 0)

parse_f64(str) ==
    parse_f64_point(Len(str) > 0 /\ str[1] = "-", Unsigned(str), DigitRun(Unsigned(str), 1))

(***************************************************************************)
(* Unit and the amount shorthand                                           *)
(***************************************************************************)
Unit_value(c) ==
    F64Round(FALSE,
             BigPow10(CASE c = "p" -> 12 [] c = "n" -> 9 [] c = "u" -> 6 [] c = "m" -> 3 [] OTHER -> 0),
             <<1>>, 0)

Unit_units == <<"p", "n", "u", "m">>

\* a variant that keeps the pico suffix whatever the amount
encode_amount_aux_Unshortened(amount, units) ==
    IF Len(units) = 0 THEN U64_to_string(amount)
    ELSE U64_to_string(amount) \o <<units[1]>>

RECURSIVE encode_amount_aux(_, _)
encode_amount_aux(amount, units) ==
    IF Len(units) = 0 THEN U64_to_string(amount)
    ELSE IF BigModSmall(amount, 1000) = 0
    THEN encode_amount_aux(BigDivSmall(amount, 1000), Tail(units))
    ELSE U64_to_string(amount) \o <<units[1]>>

\* the amount in pico units, cut to u64
pico_amount(amount) == F64AsU64(F64Mul(amount, Unit_value("p")))

encode_amount(amount) == encode_amount_aux(pico_amount(amount), Unit_units)

\* match unit_char { Some(u) if u != 1f64 => .., _ => .. }, Some(u) being <<u>>
decode_amount_match(amount, unit_char) ==
    CASE Eager(unit_char) ->
        IF unit_char # <<>> /\ unit_char[1] # F64OfInt(1)
        THEN MapResult(parse_f64(SubSeq(amount, 1, Len(amount) - 1)),
                       LAMBDA v : F64Div(v, unit_char[1]))
        ELSE parse_f64(amount)

decode_amount(amount) ==
    decode_amount_match(amount,
        IF amount = <<>> THEN <<>> ELSE <<Unit_value(amount[Len(amount)])>>)

(***************************************************************************)
(* The inputs the caller draws from                                        *)
(***************************************************************************)
MaxShortLen == 3     \* payloads of 0..MaxShortLen bytes or words, besides the long ones
MaxHops == 2         \* paths of 0..MaxHops hops over HopSamples, besides the long ones
MaxPicoBase == 64    \* amounts of 1..MaxPicoBase units at each power of 1000
MaxStrLen == 3       \* amount strings of 0..MaxStrLen characters
MaxStamp == 40       \* timestamps 0..MaxStamp, besides those built from words

\* n bytes: all zero (seed 0), counting up or counting down
BytePattern(n, seed) == [i \in 1..n |-> (seed * (i + 1)) % 256]
ByteSeeds == {0, 1, 255}

\* n lower-case letters
AsciiPattern(n, seed) == [i \in 1..n |-> 97 + ((seed * i) % 26)]

\* byte counts whose packing is 255, 256, 1023 and 1024 words
LongByteLens == {159, 160, 639, 640}
ByteLens == (0..MaxShortLen) \cup {20, 32, 39} \cup LongByteLens
WordLens == (0..MaxShortLen) \cup {31, 32, 255, 256, 1023, 1024}

U64Samples ==
    {BigZero, BigOfInt(1), BigOfInt(12), BigOfInt(31), BigOfInt(32), BigOfInt(60),
     BigOfInt(1023), BigOfInt(1024), BigPow2(32), BigPow2(35), BigPow2(63), U64Max}

TestPubKey(first) ==
    <<first, 158, 3, 169, 1, 184, 85, 52, 255, 30, 146, 196, 60, 116, 67, 31, 124, 231,
      32, 70, 6, 15, 207, 122, 149, 195, 126, 20, 143, 120, 199, 114, 85>>

HopSamples ==
    {ExtraHop(BytePattern(33, 0), BigZero, BigZero, BigZero, BigZero),
     ExtraHop(TestPubKey(2), BigOfBytes(<<1, 2, 3, 4, 5, 6, 7, 8>>), BigOfInt(1), BigOfInt(20),
              BigOfInt(3)),
     ExtraHop(BytePattern(33, 255), U64Max, BigSub(BigPow2(32), <<1>>),
              BigSub(BigPow2(32), <<1>>), BigOfInt(65535))}

\* 4 hops pack to 327 words and 13 hops to 1061
LongPaths == {Repeat(h, n) : h \in HopSamples, n \in {3, 4, 12, 13}}
PathInputs == UNION {[1..n -> HopSamples] : n \in 0..MaxHops} \cup LongPaths

UnknownCodes == {0, 2, 31}

DescriptionInputs ==
    {AsciiPattern(n, seed) : n \in ByteLens, seed \in {0, 1}}
    \cup {<<195, 169>>, <<226, 130, 172>>, <<97, 240, 159, 152, 128>>}

\* the tags with valid field values
TagInputs ==
    {PaymentHash(BytePattern(32, seed)) : seed \in ByteSeeds}
    \cup {Description(d) : d \in DescriptionInputs}
    \cup {DescriptionHash(BytePattern(n, seed)) : n \in ByteLens, seed \in ByteSeeds}
    \cup {FallbackAddress(v, BytePattern(n, seed)) :
            v \in {0, 17, 18}, n \in ByteLens, seed \in ByteSeeds}
    \cup {Expiry(v) : v \in U64Samples}
    \cup {MinFinalCltvExpiry(v) : v \in U64Samples}
    \cup {RoutingInfo(path) : path \in PathInputs}
    \cup {UnknownTag(code, Repeat(w, n)) : code \in UnknownCodes, n \in WordLens, w \in {0, 21, 31}}

\* raw words for Tag::parse: a type code, a declared length hi * 32 + lo, a payload
\* of one word and a fill, and extra words more (or fewer) than the declared length
DeclaredLens == {0, 1, 2, 8, 52, 255, 256, 257, 1023}
WordInput(code, len, first, fill, extra) ==
    SubSeq(<<code, len \div 32, len % 32, first>> \o Repeat(fill, len + 1), 1,
           3 + len + extra)
WordInputs ==
    {WordInput(code, len, first, fill, extra) :
        code \in KnownCodes \cup UnknownCodes, len \in DeclaredLens,
        first \in {0, 17, 18, 19, 31}, fill \in {0, 31}, extra \in {0, 1}}

\* words that stop early: part of the header, or a header and the first keep - 3
\* of the len payload words it declares
HeaderWords == {0, 1, 7, 8, 31}
TruncatedWordInputs ==
    {SubSeq(<<code, hi, lo>>, 1, n) :
        code \in KnownCodes \cup UnknownCodes, hi \in HeaderWords, lo \in {0, 31},
        n \in 0..2}
    \cup
    UNION {{SubSeq(WordInput(code, len, first, fill, 0), 1, keep) :
                code \in KnownCodes \cup UnknownCodes, first \in {0, 19},
                fill \in {0, 31}, keep \in {k \in {3, 4, 54, 2 + len} : k < 3 + len}} :
           len \in DeclaredLens \ {0}}
    \cup
    {WordInput(BECH32_ALPHABET["p"], len, first, 31, extra) :
        len \in {0, 8, 50, 51}, first \in {0, 19}, extra \in {0, 1}}

(***************************************************************************)
(* The caller: each behaviour is one call on an input of the caller's, and  *)
(* then possibly the inverse call on what it returned                      *)
(***************************************************************************)
NoCall == [pc |-> "none"]
ThisCall == [pc |-> pc, arg |-> arg, ret |-> ret]

Init ==
    /\ overflow_checks \in BOOLEAN
    /\ pc = "none"
    /\ arg = <<>>
    /\ ret = Ok(<<>>)
    /\ prev = NoCall

\* Tag::to_vec_u5 on a tag the caller built
Call_to_vec_u5 ==
    \E t \in TagInputs :
        /\ pc = "none"
        /\ pc' = "to_vec_u5"
        /\ arg' = t
        /\ ret' = Tag_to_vec_u5(t)
        /\ prev' = NoCall
        /\ UNCHANGED overflow_checks

\* Tag::parse on the words to_vec_u5 just returned
Call_parse_encoded ==
    /\ pc = "to_vec_u5"
    /\ prev = NoCall
    /\ IsOk(ret)
    /\ pc' = "parse"
    /\ arg' = ret.val
    /\ ret' = Tag_parse(ret.val, overflow_checks)
    /\ prev' = ThisCall
    /\ UNCHANGED overflow_checks

\* Tag::parse on words from the wire
Call_parse ==
    \E w \in WordInputs :
        /\ pc = "none"
        /\ pc' = "parse"
        /\ arg' = w
        /\ ret' = Tag_parse(w, overflow_checks)
        /\ prev' = NoCall
        /\ UNCHANGED overflow_checks

\* Tag::parse on words from the wire that stop early
Call_parse_truncated ==
    \E w \in TruncatedWordInputs :
        /\ pc = "none"
        /\ pc' = "parse_truncated"
        /\ arg' = w
        /\ ret' = Tag_parse(w, overflow_checks)
        /\ prev' = NoCall
        /\ UNCHANGED overflow_checks

\* Tag::to_vec_u5 on the tag parse just returned
Call_to_vec_u5_parsed ==
    /\ pc = "parse"
    /\ prev = NoCall
    /\ IsOk(ret)
    /\ pc' = "to_vec_u5"
    /\ arg' = ret.val
    /\ ret' = Tag_to_vec_u5(ret.val)
    /\ prev' = ThisCall
    /\ UNCHANGED overflow_checks

NextTag ==
    \/ Call_to_vec_u5
    \/ Call_parse_encoded
    \/ Call_parse
    \/ Call_parse_truncated
    \/ Call_to_vec_u5_parsed

SpecTag == Init /\ [][NextTag]_vars

(***************************************************************************)
(* Properties of the tag codec                                             *)
(***************************************************************************)
SameResult(a, b) == a.kind = b.kind /\ (IsOk(a) => a.val.type = b.val.type) /\ a = b

\* the length the wire format declares: word 1 * 32 + word 2, in 0..1023
DeclaredLen(w) == w[2] * 32 + w[3]

\* the type code of each variant
TypeCode(t) ==
    CASE t.type = "PaymentHash" -> 1
      [] t.type = "Description" -> 13
      [] t.type = "DescriptionHash" -> 23
      [] t.type = "FallbackAddress" -> 9
      [] t.type = "RoutingInfo" -> 3
      [] t.type = "Expiry" -> 6
      [] t.type = "MinFinalCltvExpiry" -> 24
      [] t.type = "UnknownTag" -> t.tag

\* the number of 5-bit words n bytes pack to
WordsOfBytes(n) == (8 * n + 4) \div 5

\* the number of payload words of each variant
PayloadLen(t) ==
    CASE t.type = "PaymentHash" -> WordsOfBytes(Len(t.hash))
      [] t.type = "Description" -> WordsOfBytes(Len(t.description))
      [] t.type = "DescriptionHash" -> WordsOfBytes(Len(t.hash))
      [] t.type = "FallbackAddress" -> 1 + WordsOfBytes(Len(t.hash))
      [] t.type = "RoutingInfo" -> WordsOfBytes(CHUNK_LENGTH * Len(t.path))
      [] t.type = "Expiry" -> (BigBitLen(t.seconds) + 4) \div 5
      [] t.type = "MinFinalCltvExpiry" -> (BigBitLen(t.blocks) + 4) \div 5
      [] t.type = "UnknownTag" -> Len(t.bytes)

\* C1: encoding a tag with valid field values and then parsing the resulting words
\* yields a tag equal to the original.
C1_RoundTrip ==
    (pc = "parse" /\ prev.pc = "to_vec_u5") =>
        (IsOk(ret) /\ ret.val.type = prev.arg.type /\ ret.val = prev.arg)

\* C2: for every variant the encoded form is the type word of the variant, the
\* payload word count as two base-32 words, high word first, and the payload, and
\* every word is in 0..31.
C2_EncodedLayout ==
    (pc = "to_vec_u5" /\ prev = NoCall /\ IsOk(ret)) =>
        LET w == ret.val
        IN  /\ Len(w) = 3 + PayloadLen(arg)
            /\ w[1] = TypeCode(arg)
            /\ w[2] * 32 + w[3] = PayloadLen(arg)
            /\ \A i \in 1..Len(w) : w[i] \in 0..31

\* C3: encoding a tag whose payload is 1024 or more words fails with InvalidLength,
\* whatever the variant, and a payload of 0..1023 words encodes with a two-word length.
C3_InvalidLength ==
    (pc = "to_vec_u5" /\ prev = NoCall) =>
        IF PayloadLen(arg) >= 1024
        THEN IsErr(ret) /\ ret.err = "InvalidLength"
        ELSE IsOk(ret) /\ Len(ret.val) = 3 + PayloadLen(arg)

\* C4: parsing takes the type from word 0 and the payload length as
\* word 1 * 32 + word 2, a value in 0..1023, and the payload from the words 3 up to
\* 3 + length: the result is the one that length gives.
C4_DeclaredLength ==
    (pc = "parse" /\ Len(arg) >= 3) =>
        SameResult(ret, Tag_parse_tag(arg, arg[1], DeclaredLen(arg), overflow_checks))

\* C5: parsing words whose type code is none of the seven known codes yields an
\* UnknownTag with that code and exactly the declared payload words, and encoding
\* that tag gives back the first 3 + length words of the input.
C5_UnknownRoundTrip ==
    /\ (pc = "parse" /\ prev = NoCall /\ arg[1] \notin KnownCodes
            /\ Len(arg) >= 3 + DeclaredLen(arg)) =>
          SameResult(ret, Ok(UnknownTag(arg[1], SubSeq(arg, 4, 3 + DeclaredLen(arg)))))
    /\ (pc = "to_vec_u5" /\ prev.pc = "parse" /\ prev.arg[1] \notin KnownCodes
            /\ Len(prev.arg) >= 3 + DeclaredLen(prev.arg)) =>
          (IsOk(ret) /\ ret.val = SubSeq(prev.arg, 1, 3 + DeclaredLen(prev.arg)))

\* C6: parsing type code 9 with a version word of at most 18 yields a
\* FallbackAddress of that version and of the bytes the rest of the payload unpacks
\* to, and with a version word above 18 an UnknownTag of code 9 and the whole
\* declared payload, for every declared length (of a word at least, the version)
\* the input holds the words of.
C6_FallbackVersion ==
    (pc = "parse" /\ prev = NoCall /\ arg[1] = 9 /\ DeclaredLen(arg) >= 1
        /\ Len(arg) >= 3 + DeclaredLen(arg)) =>
        LET len == DeclaredLen(arg)
            version == arg[4]
        IN  IF version <= 18
            THEN SameResult(ret, MapResult(VecU5_to_u8_vec(SubSeq(arg, 5, 3 + len)),
                                           LAMBDA hash : FallbackAddress(version, hash)))
            ELSE SameResult(ret, Ok(UnknownTag(9, SubSeq(arg, 4, 3 + len))))

\* the words stop before the end of the range their type code reads: the header,
\* the 52 words of a payment hash, the declared payload of the other codes
StopsShort(w) ==
    \/ Len(w) < 3
    \/ w[1] = BECH32_ALPHABET["p"] /\ Len(w) < 55
    \/ w[1] # BECH32_ALPHABET["p"] /\ Len(w) < 3 + DeclaredLen(w)

OutOfRangeAborts ==
    {Panic("index out of bounds"), Panic("slice index out of range")}

\* C12: Tag::parse does not validate bounds: on words that stop before the end of
\* the range the type code reads (fewer than 3 words, fewer than 55 for code p,
\* fewer than 3 + declared length for the other codes) the call ends in an
\* out-of-range access abort, never in an Ok or an Err value.
C12_TruncatedAborts ==
    (pc = "parse_truncated" /\ StopsShort(arg)) => ret \in OutOfRangeAborts

(***************************************************************************)
(* The timestamp codec and its caller                                      *)
(***************************************************************************)
\* the stamp of test::timestamp_test
TestStamp == BigOfInt(1496314658)

\* u64 values: small ones, seven words of 0 or 31 under 0, 1 or 2^29 - 1 in the
\* bits from 35 up
TimestampInputs ==
    {BigOfInt(t) : t \in 0..MaxStamp}
    \cup {TestStamp}
    \cup {BigAdd(BigShl(high, 35), FoldBase32(BigZero, w)) :
            high \in {BigZero, <<1>>, BigShr(U64Max, 35)}, w \in [1..7 -> {0, 31}]}

StampWordInputs == {Repeat(w, n) : w \in {0, 1, 31}, n \in 0..9}

Call_Timestamp_encode ==
    \E t \in TimestampInputs :
        /\ pc = "none"
        /\ pc' = "Timestamp_encode"
        /\ arg' = t
        /\ ret' = Timestamp_encode(t)
        /\ prev' = NoCall
        /\ UNCHANGED overflow_checks

\* Timestamp::decode on the words Timestamp::encode just returned
Call_Timestamp_decode_encoded ==
    /\ pc = "Timestamp_encode"
    /\ pc' = "Timestamp_decode"
    /\ arg' = ret
    /\ ret' = Timestamp_decode(ret)
    /\ prev' = ThisCall
    /\ UNCHANGED overflow_checks

Call_Timestamp_decode ==
    \E w \in StampWordInputs :
        /\ pc = "none"
        /\ pc' = "Timestamp_decode"
        /\ arg' = w
        /\ ret' = Timestamp_decode(w)
        /\ prev' = NoCall
        /\ UNCHANGED overflow_checks

NextTimestamp ==
    Call_Timestamp_encode \/ Call_Timestamp_decode_encoded \/ Call_Timestamp_decode

SpecTimestamp == Init /\ [][NextTimestamp]_vars

\* C7: Timestamp::encode returns exactly 7 words for every u64, each in 0..31 and
\* the most significant first: word i (of 0..6) is the base-32 digit of weight
\* 32^(6 - i); and decoding the words of a timestamp below 2^35 gives it back.
C7_TimestampRoundTrip ==
    /\ pc = "Timestamp_encode" =>
          /\ Len(ret) = 7
          /\ \A i \in 1..7 :
                ret[i] \in 0..31 /\ ret[i] = BigModSmall(BigShr(arg, 5 * (7 - i)), 32)
    /\ (pc = "Timestamp_decode" /\ prev.pc = "Timestamp_encode"
            /\ BigLt(prev.arg, BigPow2(35))) => ret = prev.arg

\* the stamp of the test has been encoded to the words of the test, and decoded
C7_Witness ==
    /\ pc = "Timestamp_decode"
    /\ prev.pc = "Timestamp_encode"
    /\ prev.arg = TestStamp
    /\ prev.ret = <<1, 12, 18, 31, 28, 25, 2>>
    /\ ret = prev.arg

(***************************************************************************)
(* The amount shorthand and its caller                                     *)
(***************************************************************************)
\* amounts as test::encode_decode_amount_test builds them, k / Unit::value(c): the
\* f64 nearest to k units; and 0, and more than u64 holds in pico units
AmountInputs ==
    {F64Div(F64OfInt(k), Unit_value(c)) : k \in 1..MaxPicoBase, c \in {"p", "n", "u", "m", "1"}}
    \cup {F64Div(F64OfInt(k), Unit_value("p")) : k \in {122, 123, 1000, 1200, 10000000}}
    \cup {F64Div(F64OfInt(123), Unit_value(c)) : c \in {"u", "m"}}
    \cup {F64Zero(FALSE), F64OfInt(1000), F64OfInt(21000000)}

AmountChars == {"1", "6", ".", "e", "-", "p", "x"}
StringInputs == UNION {[1..n -> AmountChars] : n \in 0..MaxStrLen}

Call_encode_amount ==
    \E a \in AmountInputs :
        /\ pc = "none"
        /\ pc' = "encode_amount"
        /\ arg' = a
        /\ ret' = encode_amount(a)
        /\ prev' = NoCall
        /\ UNCHANGED overflow_checks

\* decode_amount on the string encode_amount just returned
Call_decode_amount_encoded ==
    /\ pc = "encode_amount"
    /\ pc' = "decode_amount"
    /\ arg' = ret
    /\ ret' = decode_amount(ret)
    /\ prev' = ThisCall
    /\ UNCHANGED overflow_checks

Call_decode_amount ==
    \E str \in StringInputs :
        /\ pc = "none"
        /\ pc' = "decode_amount"
        /\ arg' = str
        /\ ret' = decode_amount(str)
        /\ prev' = NoCall
        /\ UNCHANGED overflow_checks

NextAmount == Call_encode_amount \/ Call_decode_amount_encoded \/ Call_decode_amount

SpecAmount == Init /\ [][NextAmount]_vars

Multipliers == {"p", "n", "u", "m"}

\* the number of pico units in one unit of each multiplier
PicoScale(c) ==
    CASE c = "p" -> BigPow10(0)
      [] c = "n" -> BigPow10(3)
      [] c = "u" -> BigPow10(6)
      [] c = "m" -> BigPow10(9)

HasMultiplier(str) == Len(str) > 0 /\ str[Len(str)] \in Multipliers
DigitsOf(str) == IF HasMultiplier(str) THEN SubSeq(str, 1, Len(str) - 1) ELSE str

\* one or more digits, then possibly one multiplier letter
AmountGrammar(str) ==
    Len(DigitsOf(str)) >= 1 /\ \A i \in 1..Len(DigitsOf(str)) : IsDigit(DigitsOf(str)[i])

\* C8: the encoder writes the integer pico amount n as a decimal integer v and the
\* coarsest multiplier that applies: with a multiplier p, n, u or m, v is not
\* divisible by 1000 and v times the pico scale of the multiplier is n; with none,
\* v is n / 10^12.
C8_CoarsestMultiplier ==
    pc = "encode_amount" =>
        LET n == pico_amount(arg)
            v == BigOfDigits(DigitsOf(ret))
        IN  /\ AmountGrammar(ret)
            /\ IF HasMultiplier(ret)
               THEN /\ BigModSmall(v, 1000) # 0
                    /\ BigMul(v, PicoScale(ret[Len(ret)])) = n
               ELSE BigMul(v, BigPow10(12)) = n

\* 123000000 pico units have been written as 123u
C8_Witness ==
    /\ pc = "encode_amount"
    /\ pico_amount(arg) = BigOfInt(123000000)
    /\ ret = <<"1", "2", "3", "u">>

\* C9: for every amount a that is a whole number of pico units,
\* decode_amount(encode_amount(a)) returns Ok(a).
C9_AmountRoundTrip ==
    (pc = "decode_amount" /\ prev.pc = "encode_amount") =>
        (IsOk(ret) /\ ret.val = prev.arg)

\* C10: decode_amount returns a parse error for every string that is not one or
\* more decimal digits and then possibly one multiplier letter of p, n, u, m.
C10_RejectsOtherStrings ==
    (pc = "decode_amount" /\ prev = NoCall /\ ~AmountGrammar(arg)) => IsErr(ret)

(***************************************************************************)
(* ExtraHop::parse_all on byte strings of every length 51 * n + r, and on   *)
(* the bytes ExtraHop::pack wrote.  parse_all returns a plain Vec: ret is   *)
(* Ok(hops) when the call returned.                                         *)
(***************************************************************************)
MaxChunks == 3       \* byte strings hold 0..MaxChunks whole chunks

TrailingLens == {0, 1, 2, 25, 49, 50}

HopByteInputs ==
    {BytePattern(CHUNK_LENGTH * n + r, seed) :
        n \in 0..MaxChunks, r \in TrailingLens, seed \in ByteSeeds}

Call_parse_all ==
    \E data \in HopByteInputs :
        /\ pc = "none"
        /\ pc' = "parse_all"
        /\ arg' = data
        /\ ret' = Ok(ExtraHop_parse_all(data))
        /\ prev' = NoCall
        /\ UNCHANGED overflow_checks

Call_pack ==
    \E hop \in HopSamples :
        /\ pc = "none"
        /\ pc' = "pack"
        /\ arg' = hop
        /\ ret' = ExtraHop_pack(hop)
        /\ prev' = NoCall
        /\ UNCHANGED overflow_checks

Call_parse_all_packed ==
    /\ pc = "pack"
    /\ IsOk(ret)
    /\ pc' = "parse_all"
    /\ arg' = ret.val
    /\ ret' = Ok(ExtraHop_parse_all(ret.val))
    /\ prev' = ThisCall
    /\ UNCHANGED overflow_checks

NextHop == Call_parse_all \/ Call_pack \/ Call_parse_all_packed

SpecHop == Init /\ [][NextHop]_vars

\* what the bytes [51 * (i - 1), 51 * i) of data say, field by field: the
\* key is the first 33 bytes, the numbers are the big-endian bytes after it
HopIsAt(hop, data, i) ==
    /\ hop.pub_key = SubSeq(data, 51 * (i - 1) + 1, 51 * (i - 1) + 33)
    /\ BigToBytes(hop.short_channel_id, 8) = SubSeq(data, 51 * (i - 1) + 34, 51 * (i - 1) + 41)
    /\ BigToBytes(hop.fee_base_msat, 4) = SubSeq(data, 51 * (i - 1) + 42, 51 * (i - 1) + 45)
    /\ BigToBytes(hop.fee_proportional_millionths, 4) = SubSeq(data, 51 * (i - 1) + 46, 51 * (i - 1) + 49)
    /\ BigToBytes(hop.cltv_expiry_delta, 2) = SubSeq(data, 51 * (i - 1) + 50, 51 * i)

\* C11: on a byte string of length 51 * n + r with 0 <= r < 51,
\* ExtraHop::parse_all returns without error exactly n hops, the i-th one
\* holding the fields of bytes [51 * i, 51 * i + 51) in input order; the r
\* trailing bytes are dropped.
C11_ParseAllChunks ==
    pc = "parse_all" =>
        /\ IsOk(ret)
        /\ Len(ret.val) = Len(arg) \div 51
        /\ \A i \in 1..Len(ret.val) : HopIsAt(ret.val[i], arg, i)
        /\ \A i \in 1..Len(ret.val) :
               ret.val[i] = ExtraHop_parse(SubSeq(arg, 51 * (i - 1) + 1, 51 * i))

\* two different hops and fifty bytes left over
C11_Witness ==
    /\ pc = "parse_all"
    /\ Len(arg) = 51 * 2 + 50
    /\ IsOk(ret)
    /\ Len(ret.val) = 2
    /\ ret.val[1] # ret.val[2]

(***************************************************************************)
(* A caller walking a stream of tags: it holds the encodings of its tags    *)
(* one after the other, hands Tag::parse the words from its offset on and   *)
(* advances by the three header words and the length they declare.  arg is  *)
(* the walk (the tags written, the stream, the offset), ret the tags        *)
(* returned so far, or the failure of the call that did not return one.     *)
(***************************************************************************)
MaxStream == 2       \* streams of 0..MaxStream tags over StreamTags

\* one valid tag of every kind, and two whose payloads are 256 and 327 words
StreamTags ==
    {PaymentHash(BytePattern(32, 1)),
     Description(<<>>),
     Description(AsciiPattern(3, 1)),
     DescriptionHash(BytePattern(32, 255)),
     FallbackAddress(17, BytePattern(20, 1)),
     RoutingInfo(<<ExtraHop(TestPubKey(2), BigOfInt(258), BigOfInt(1), BigOfInt(20), BigOfInt(3))>>),
     Expiry(BigOfInt(60)),
     MinFinalCltvExpiry(BigOfInt(12)),
     UnknownTag(2, <<21, 0, 31>>),
     DescriptionHash(BytePattern(160, 0)),
     RoutingInfo(Repeat(ExtraHop(BytePattern(33, 255), U64Max, BigOfInt(1), BigOfInt(2), BigOfInt(3)), 4))}

TagStreams == UNION {[1..n -> StreamTags] : n \in 0..MaxStream}

RECURSIVE EncodeAll(_)
EncodeAll(tags) ==
    IF tags = <<>> THEN <<>>
    ELSE Tag_to_vec_u5(Head(tags)).val \o EncodeAll(Tail(tags))

Walk(tags, stream, offset) == [tags |-> tags, stream |-> stream, offset |-> offset]

WalkRest(walk) == SubSeq(walk.stream, walk.offset + 1, Len(walk.stream))

WalkAdvance(walk, rest) ==
    [walk EXCEPT !.offset = walk.offset + 3 + (rest[2] * 32 + rest[3])]

WalkResult(sofar, r) == IF IsOk(r) THEN Ok(Append(sofar.val, r.val)) ELSE r

Walk_start ==
    \E tags \in TagStreams :
        /\ pc = "none"
        /\ pc' = "walk"
        /\ arg' = Walk(tags, EncodeAll(tags), 0)
        /\ ret' = Ok(<<>>)
        /\ prev' = NoCall
        /\ UNCHANGED overflow_checks

Walk_step ==
    /\ pc = "walk"
    /\ IsOk(ret)
    /\ arg.offset < Len(arg.stream)
    /\ LET r == Tag_parse(WalkRest(arg), overflow_checks)
       IN  /\ ret' = WalkResult(ret, r)
           /\ arg' = IF IsOk(r) THEN WalkAdvance(arg, WalkRest(arg)) ELSE arg
    /\ UNCHANGED <<pc, prev, overflow_checks>>

NextStream == Walk_start \/ Walk_step

SpecStream == Init /\ [][NextStream]_vars

\* C13: walking the concatenated encodings of valid tags t1..tn from offset 0,
\* each time parsing the remaining words and advancing by 3 + hi * 32 + lo,
\* returns t1..tn in order and ends exactly at the end of the stream; and the
\* words after a tag's own 3 + len words do not change what its parse returns.
C13_StreamWalk ==
    pc = "walk" =>
        /\ IsOk(ret)
        /\ Len(ret.val) <= Len(arg.tags)
        /\ \A i \in 1..Len(ret.val) : ret.val[i] = arg.tags[i]
        /\ arg.offset <= Len(arg.stream)
        /\ arg.offset = Len(arg.stream) => Len(ret.val) = Len(arg.tags)
        /\ arg.offset < Len(arg.stream) =>
               Tag_parse(WalkRest(arg), overflow_checks)
                   = Tag_parse(SubSeq(WalkRest(arg), 1, 3 + DeclaredLen(WalkRest(arg))),
                               overflow_checks)

(***************************************************************************)
(* The callers together                                                    *)
(***************************************************************************)
Next == NextTag \/ NextTimestamp \/ NextAmount \/ NextHop \/ NextStream

Spec == Init /\ [][Next]_vars

====
